---- MODULE Spec2Model ----
(***************************************************************************)
(* A model of the two log pipelines of the repository:                     *)
(*   analyze.py  - the summary pipeline (analyze_jsonl_file,               *)
(*                 scan_all_projects, build_timeline)                      *)
(*   extract.py  - the detail pipeline (extract_message_content,           *)
(*                 extract_all_conversations)                              *)
(* Text is a sequence of one-character strings.  A decoded JSON value is a *)
(* record tagged by j: "null", "num", "str", "list" or "dict".             *)
(***************************************************************************)
EXTENDS Integers, Sequences, FiniteSets, TLC

VARIABLES
    root,             \* the entries of PROJECTS_DIR, in listing order
    pc,               \* position of the run
    pi,               \* entries of root already iterated
    fi,               \* files of the current project already iterated
    ln,               \* lines of the current file already iterated
    data,             \* analyze_jsonl_file: the accumulator `data`
    a_exc,            \* analyze_jsonl_file: the exception its outer handler swallowed
    recent_activity,  \* scan_all_projects: File Summaries of the current project
    total_messages,   \* scan_all_projects: message total of the current project
    earliest_ts,      \* scan_all_projects: earliest instant of the current project
    latest_ts,        \* scan_all_projects: latest instant of the current project
    projects_data,    \* scan_all_projects: the list it builds and returns
    timeline,         \* build_timeline: the list it returns
    s_exc,            \* analyze.py: the exception that ended the run ("none": none did)
    all_entries,      \* extract_all_conversations: the list `all_entries`
    e_exc             \* extract_all_conversations: the exception its per-file handler swallowed

vars == <<root, pc, pi, fi, ln, data, a_exc, recent_activity, total_messages,
          earliest_ts, latest_ts, projects_data, timeline, s_exc, all_entries, e_exc>>

----------------------------------------------------------------------------
(* Bounds of the model *)

\* most lines in one file
MaxLines == 3

\* ticks of the model's clock in one day
TicksPerDay == 2

\* most files in the first project directory of a tree
MaxFiles == 2

----------------------------------------------------------------------------
(* Text *)

Digits == <<"0", "1", "2", "3", "4", "5", "6", "7", "8", "9">>

\* str.isspace for the characters of the model
IsSpace(c) == c \in {" ", "\n", "\t"}

\* the code point of the characters an ISO timestamp is made of (str ordering)
Ord(c) ==
    CASE c = "+" -> 43
      [] c = "-" -> 45
      [] c = "." -> 46
      [] c = "0" -> 48
      [] c = "1" -> 49
      [] c = "2" -> 50
      [] c = "3" -> 51
      [] c = "4" -> 52
      [] c = "5" -> 53
      [] c = "6" -> 54
      [] c = "7" -> 55
      [] c = "8" -> 56
      [] c = "9" -> 57
      [] c = ":" -> 58
      [] c = "T" -> 84

\* s < t for Python strings: lexicographic by code point, a proper prefix is smaller
RECURSIVE StrLess(_, _)
StrLess(s, t) ==
    IF t = <<>> THEN FALSE
    ELSE IF s = <<>> THEN TRUE
    ELSE IF Head(s) = Head(t) THEN StrLess(Tail(s), Tail(t))
    ELSE Ord(Head(s)) < Ord(Head(t))

StartsWith(s, p) == Len(s) >= Len(p) /\ SubSeq(s, 1, Len(p)) = p

\* str.replace(old, new), old non-empty: leftmost non-overlapping occurrences
RECURSIVE Replace(_, _, _)
Replace(s, old, new) ==
    IF Len(s) < Len(old) THEN s
    ELSE IF StartsWith(s, old)
         THEN new \o Replace(SubSeq(s, Len(old) + 1, Len(s)), old, new)
         ELSE <<Head(s)>> \o Replace(Tail(s), old, new)

RECURSIVE LStrip(_)
LStrip(s) == IF s # <<>> /\ IsSpace(Head(s)) THEN LStrip(Tail(s)) ELSE s

RECURSIVE RStrip(_)
RStrip(s) ==
    IF s # <<>> /\ IsSpace(s[Len(s)]) THEN RStrip(SubSeq(s, 1, Len(s) - 1)) ELSE s

\* str.strip()
Strip(s) == RStrip(LStrip(s))

\* sep.join(parts) for a sequence of texts
RECURSIVE Join(_, _)
Join(sep, parts) ==
    IF parts = <<>> THEN <<>>
    ELSE IF Len(parts) = 1 THEN parts[1]
    ELSE parts[1] \o sep \o Join(sep, Tail(parts))

\* two decimal digits, as %02d
Digit2(n) == <<Digits[(n \div 10) + 1], Digits[(n % 10) + 1]>>

IsDigit(c) == \E i \in 1..10 : Digits[i] = c

DigitVal(c) == (CHOOSE i \in 1..10 : Digits[i] = c) - 1

----------------------------------------------------------------------------
(* Decoded JSON values *)

JNull == [j |-> "null"]
JNum(n) == [j |-> "num", n |-> n]
JStr(s) == [j |-> "str", s |-> s]
JList(xs) == [j |-> "list", items |-> xs]
JDict(f) == [j |-> "dict", f |-> f]
EmptyDict == JDict(<<>>)

\* bool(v) of a decoded value
Truthy(v) ==
    CASE v.j = "null" -> FALSE
      [] v.j = "num" -> v.n # 0
      [] v.j = "str" -> v.s # <<>>
      [] v.j = "list" -> v.items # <<>>
      [] v.j = "dict" -> DOMAIN v.f # {}

\* d.get(k, default) of a dict d
Get(d, k, default) == IF k \in DOMAIN d.f THEN d.f[k] ELSE default

\* the keys of the records, as text, in the order a record lists them
KeyOrder == <<"type", "text", "content", "timestamp", "snapshot", "message">>

KeyText(k) ==
    CASE k = "type" -> <<"t", "y", "p", "e">>
      [] k = "text" -> <<"t", "e", "x", "t">>
      [] k = "content" -> <<"c", "o", "n", "t", "e", "n", "t">>
      [] k = "timestamp" -> <<"t", "i", "m", "e", "s", "t", "a", "m", "p">>
      [] k = "snapshot" -> <<"s", "n", "a", "p", "s", "h", "o", "t">>
      [] k = "message" -> <<"m", "e", "s", "s", "a", "g", "e">>

\* str(n) of a small non-negative integer
NumText(n) == IF n < 10 THEN <<Digits[n + 1]>> ELSE Digit2(n)

\* the keys of KeyOrder that a dict holds
RECURSIVE SelectKeys(_, _)
SelectKeys(keys, dom) ==
    IF keys = <<>> THEN <<>>
    ELSE IF Head(keys) \in dom THEN <<Head(keys)>> \o SelectKeys(Tail(keys), dom)
    ELSE SelectKeys(Tail(keys), dom)

\* repr(v) of a decoded value
RECURSIVE PyRepr(_)
PyRepr(v) ==
    CASE v.j = "null" -> <<"N", "o", "n", "e">>
      [] v.j = "num" -> NumText(v.n)
      [] v.j = "str" -> <<"'">> \o v.s \o <<"'">>
      [] v.j = "list" ->
            <<"[">> \o Join(<<",", " ">>, [i \in 1..Len(v.items) |-> PyRepr(v.items[i])])
                    \o <<"]">>
      [] v.j = "dict" ->
            LET ks == SelectKeys(KeyOrder, DOMAIN v.f)
            IN  <<"{">> \o Join(<<",", " ">>,
                                [i \in 1..Len(ks) |->
                                    <<"'">> \o KeyText(ks[i]) \o <<"'", ":", " ">>
                                            \o PyRepr(v.f[ks[i]])])
                        \o <<"}">>

\* str(v) of a decoded value
PyStr(v) == IF v.j = "str" THEN v.s ELSE PyRepr(v)

----------------------------------------------------------------------------
(* Instants: datetime values *)

None == [k |-> "None"]

\* a datetime of the model's day at hour h; aware ones carry a UTC offset in hours
Dt(h, aware, off) == [k |-> "dt", h |-> h, aware |-> aware, off |-> off]

DatePrefix == <<"2", "0", "2", "4", "-", "0", "1", "-", "0", "1", "T">>
MinSec == <<":", "0", "0", ":", "0", "0">>
LocalLen == Len(DatePrefix) + 2 + Len(MinSec)

UtcSuffix == <<"+", "0", "0", ":", "0", "0">>
OffsetLen == Len(UtcSuffix)

Abs(n) == IF n < 0 THEN -n ELSE n

\* the "+HH:MM" suffix isoformat() gives an aware datetime
UtcOffsetText(off) ==
    <<IF off < 0 THEN "-" ELSE "+">> \o Digit2(Abs(off)) \o <<":", "0", "0">>

\* datetime.isoformat()
isoformat(dt) ==
    DatePrefix \o Digit2(dt.h) \o MinSec
        \o (IF dt.aware THEN UtcOffsetText(dt.off) ELSE <<>>)

\* datetime.fromisoformat(s); None stands for the ValueError it raises
fromisoformat(s) ==
    LET n == Len(s)
        localOk ==
            /\ n >= LocalLen
            /\ SubSeq(s, 1, Len(DatePrefix)) = DatePrefix
            /\ IsDigit(s[12]) /\ IsDigit(s[13])
            /\ 10 * DigitVal(s[12]) + DigitVal(s[13]) <= 23
            /\ SubSeq(s, 14, LocalLen) = MinSec
        hour == 10 * DigitVal(s[12]) + DigitVal(s[13])
        offOk ==
            /\ n = LocalLen + OffsetLen
            /\ s[20] \in {"+", "-"}
            /\ IsDigit(s[21]) /\ IsDigit(s[22])
            /\ 10 * DigitVal(s[21]) + DigitVal(s[22]) <= 23
            /\ SubSeq(s, 23, 25) = <<":", "0", "0">>
        offset == (IF s[20] = "-" THEN -1 ELSE 1)
                    * (10 * DigitVal(s[21]) + DigitVal(s[22]))
    IN  IF ~localOk THEN None
        ELSE IF n = LocalLen THEN Dt(hour, FALSE, 0)
        ELSE IF offOk THEN Dt(hour, TRUE, offset)
        ELSE None

\* analyze.py parse_timestamp: the offset is kept; anything that raises gives None
parse_timestamp_analyze(ts_str) ==
    IF ts_str.j # "str" THEN None
    ELSE fromisoformat(Replace(ts_str.s, <<"Z">>, UtcSuffix))

\* extract.py parse_timestamp: a 'Z' or '+00:00' is removed, other offsets are kept
parse_timestamp_extract(ts_str) ==
    IF ts_str.j # "str" THEN None
    ELSE fromisoformat(Replace(Replace(ts_str.s, <<"Z">>, UtcSuffix), UtcSuffix, <<>>))

\* a < b raises TypeError between a naive and an aware datetime
Comparable(a, b) == a.aware = b.aware

\* the instant of a datetime, in hours UTC (a naive one read as UTC)
Instant(dt) == IF dt.aware THEN dt.h - dt.off ELSE dt.h

\* a < b of two comparable datetimes
DtLess(a, b) == IF a.aware THEN Instant(a) < Instant(b) ELSE a.h < b.h

----------------------------------------------------------------------------
(* extract.py: extract_message_content *)

TypeUser == JStr(<<"u", "s", "e", "r">>)
TypeAssistant == JStr(<<"a", "s", "s", "i", "s", "t", "a", "n", "t">>)
TypeMessage == JStr(<<"m", "e", "s", "s", "a", "g", "e">>)
TypeText == JStr(<<"t", "e", "x", "t">>)

\* texts of the assistant branch: the pieces collected from the content list
RECURSIVE CollectTexts(_)
CollectTexts(items) ==
    IF items = <<>> THEN <<>>
    ELSE LET item == Head(items)
             rest == CollectTexts(Tail(items))
         IN  IF item.j = "dict"
             THEN IF Get(item, "type", JNull) = TypeText
                  THEN <<Get(item, "text", JStr(<<>>))>> \o rest
                  ELSE rest
             ELSE IF item.j = "str" THEN <<item>> \o rest
             ELSE rest

\* the result of extract_message_content: (content, role), or the exception it raises
Extracted(content, role) == [exc |-> "none", content |-> content, role |-> role]
Raised(exc) == [exc |-> exc, content |-> <<>>, role |-> "None"]

extract_message_content(entry) ==
    LET type == Get(entry, "type", JNull)
    IN  IF type = TypeUser
        THEN LET msg == Get(entry, "message", EmptyDict)
             IN  IF msg.j # "dict" THEN Raised("AttributeError")
                 ELSE LET cont == Get(msg, "content", JStr(<<>>))
                      IN  IF cont.j = "list"
                          THEN Extracted(
                                  Join(<<" ">>, [i \in 1..Len(cont.items) |->
                                                    PyStr(cont.items[i])]),
                                  "user")
                          ELSE Extracted(IF Truthy(cont) THEN PyStr(cont) ELSE <<>>, "user")
        ELSE IF type \in {TypeAssistant, TypeMessage}
        THEN LET msg == Get(entry, "message", EmptyDict)
             IN  IF msg.j # "dict" THEN Extracted(<<>>, "assistant")
                 ELSE LET cont == Get(msg, "content", JList(<<>>))
                      IN  IF cont.j = "list"
                          THEN LET texts == CollectTexts(cont.items)
                               IN  IF \E i \in 1..Len(texts) : texts[i].j # "str"
                                   THEN Raised("TypeError")
                                   ELSE Extracted(
                                          Strip(Join(<<"\n">>,
                                                     [i \in 1..Len(texts) |-> texts[i].s])),
                                          "assistant")
                          ELSE Extracted(IF Truthy(cont) THEN PyStr(cont) ELSE <<>>,
                                         "assistant")
        ELSE Extracted(<<>>, "None")

----------------------------------------------------------------------------
(* Project names *)

Lowers == <<"a", "b", "c", "d", "e", "f", "g", "h", "i", "j", "k", "l", "m",
            "n", "o", "p", "q", "r", "s", "t", "u", "v", "w", "x", "y", "z">>
Uppers == <<"A", "B", "C", "D", "E", "F", "G", "H", "I", "J", "K", "L", "M",
            "N", "O", "P", "Q", "R", "S", "T", "U", "V", "W", "X", "Y", "Z">>

IsCased(c) == \E i \in 1..Len(Lowers) : c = Lowers[i] \/ c = Uppers[i]
Upper(c) == IF \E i \in 1..Len(Lowers) : c = Lowers[i]
            THEN Uppers[CHOOSE i \in 1..Len(Lowers) : c = Lowers[i]] ELSE c
Lower(c) == IF \E i \in 1..Len(Uppers) : c = Uppers[i]
            THEN Lowers[CHOOSE i \in 1..Len(Uppers) : c = Uppers[i]] ELSE c

\* str.title(): a cased letter is upper case after an uncased character, else lower case
Title(s) ==
    [i \in 1..Len(s) |->
        IF i > 1 /\ IsCased(s[i - 1]) THEN Lower(s[i]) ELSE Upper(s[i])]

\* s.split(sep) for a one-character sep: the parts of s from position i on, the part
\* being read starting at position from
RECURSIVE SplitFrom(_, _, _, _)
SplitFrom(s, sep, from, i) ==
    IF i > Len(s) THEN <<SubSeq(s, from, Len(s))>>
    ELSE IF s[i] = sep
         THEN <<SubSeq(s, from, i - 1)>> \o SplitFrom(s, sep, i + 1, i + 1)
         ELSE SplitFrom(s, sep, from, i + 1)

Split(s, sep) == SplitFrom(s, sep, 1, 1)

\* Path(path).name: the last component, trailing separators dropped
PathName(path) ==
    LET parts == SelectSeq(Split(path, "/"), LAMBDA x : x # <<>>)
    IN  IF parts = <<>> THEN <<>> ELSE parts[Len(parts)]

PROJECTS_DIR ==
    <<"/", "U", "s", "e", "r", "s", "/", "l", "a", "r", "r", "y", "/",
      ".", "c", "l", "a", "u", "d", "e", "/", "p", "r", "o", "j", "e", "c", "t", "s", "/">>

UsersLarryDir == <<"-", "U", "s", "e", "r", "s", "-", "l", "a", "r", "r", "y">>

\* str(project_path) of the entry `name` of Path(PROJECTS_DIR)
ProjectPath(name) == PROJECTS_DIR \o name

\* re.sub(r'^Users\s*Larry\s*', '', name)
StripUsersLarry(name) ==
    LET users == <<"U", "s", "e", "r", "s">>
        larry == <<"L", "a", "r", "r", "y">>
    IN  IF ~StartsWith(name, users) THEN name
        ELSE LET rest == LStrip(SubSeq(name, Len(users) + 1, Len(name)))
             IN  IF ~StartsWith(rest, larry) THEN name
                 ELSE LStrip(SubSeq(rest, Len(larry) + 1, Len(rest)))

\* the component after the first component equal to '-Users-larry', '-' made ' ',
\* title-cased; <<>> when there is none
AfterUsersLarry(path) ==
    LET parts == Split(path, "/")
    IN  IF \E i \in 1..Len(parts) : parts[i] = UsersLarryDir
        THEN LET idx == CHOOSE i \in 1..Len(parts) :
                            parts[i] = UsersLarryDir
                            /\ \A m \in 1..(i - 1) : parts[m] # UsersLarryDir
             IN  IF idx + 1 <= Len(parts)
                 THEN <<Title(Replace(parts[idx + 1], <<"-">>, <<" ">>))>>
                 ELSE <<>>
        ELSE <<>>

\* analyze.py get_project_name
get_project_name_analyze(path) ==
    LET hit == AfterUsersLarry(path)
    IN  IF hit # <<>> THEN hit[1] ELSE PathName(path)

Root == <<"R", "o", "o", "t">>

\* extract.py get_project_name
get_project_name_extract(path) ==
    LET hit == AfterUsersLarry(path)
    IN  IF hit # <<>>
        THEN LET name == Strip(StripUsersLarry(hit[1]))
             IN  IF name # <<>> THEN name ELSE Root
        ELSE PathName(path)

----------------------------------------------------------------------------
(* The directory tree *)

\* a line of a log file: blank, text json.loads rejects, or text it decodes to v
Blank == [k |-> "blank"]
Garbage == [k |-> "garbage"]
Json(v) == [k |-> "json", v |-> v]

DotJsonl == <<".", "j", "s", "o", "n", "l">>
AgentDash == <<"a", "g", "e", "n", "t", "-">>

EndsWith(s, p) == Len(s) >= Len(p) /\ SubSeq(s, Len(s) - Len(p) + 1, Len(s)) = p

\* fnmatch of a file name against '*.jsonl'
MatchJsonl(name) == EndsWith(name, DotJsonl)

\* fnmatch of a file name against 'agent-*.jsonl'
MatchAgentJsonl(name) ==
    /\ Len(name) >= Len(AgentDash) + Len(DotJsonl)
    /\ StartsWith(name, AgentDash)
    /\ EndsWith(name, DotJsonl)

\* project_path.glob('*.jsonl'): the files of the directory that match, in listing order
GlobJsonl(dir) == SelectSeq(dir.files, LAMBDA f : MatchJsonl(f.name))

\* project_path.glob('agent-*.jsonl')
GlobAgentJsonl(dir) == SelectSeq(dir.files, LAMBDA f : MatchAgentJsonl(f.name))

----------------------------------------------------------------------------
(* Sorting *)

\* list.sort(key=..., reverse=True) of seq, lt[i][j] saying key(seq[i]) < key(seq[j]):
\* descending by key, elements of equal key in their original order (stable)
SortedDesc(seq, lt) ==
    LET n == Len(seq)
        rank(i) ==
            1 + Cardinality({m \in 1..n : lt[i][m]})
              + Cardinality({m \in 1..(i - 1) : ~lt[i][m] /\ ~lt[m][i]})
    IN  [r \in 1..n |-> seq[CHOOSE i \in 1..n : rank(i) = r]]

----------------------------------------------------------------------------
(* analyze.py: the File Scanner *)

WEEK_DAYS == 7

Unknown == JStr(<<"u", "n", "k", "n", "o", "w", "n">>)

\* the accumulator analyze_jsonl_file starts from
NewData ==
    [entries |-> <<>>, first_timestamp |-> None, last_timestamp |-> None,
     message_count |-> 0]

\* the value analyze_jsonl_file hands to parse_timestamp:
\* entry.get('snapshot', {}).get('timestamp') or entry.get('timestamp', '')
TimestampFieldAnalyze(entry) ==
    LET nested == Get(Get(entry, "snapshot", EmptyDict), "timestamp", JNull)
    IN  IF Truthy(nested) THEN nested ELSE Get(entry, "timestamp", JStr(<<>>))

\* lines 58-68: a record with an instant is appended and counted, then widens the
\* bounds; comparing a naive with an aware instant raises TypeError
record_entry(d, entry, timestamp) ==
    LET counted == [d EXCEPT
                      !.entries = Append(@, [timestamp |-> timestamp,
                                             type |-> Get(entry, "type", Unknown),
                                             message_id |-> Get(entry, "messageId", JStr(<<>>))]),
                      !.message_count = @ + 1]
        first == IF counted.first_timestamp = None
                    \/ DtLess(timestamp, counted.first_timestamp)
                 THEN [counted EXCEPT !.first_timestamp = timestamp] ELSE counted
        last == IF first.last_timestamp = None \/ DtLess(first.last_timestamp, timestamp)
                THEN [first EXCEPT !.last_timestamp = timestamp] ELSE first
    IN  IF d.first_timestamp # None /\ ~Comparable(timestamp, d.first_timestamp)
        THEN [data |-> counted, exc |-> "TypeError"]
        ELSE IF first.last_timestamp # None /\ ~Comparable(timestamp, first.last_timestamp)
        THEN [data |-> first, exc |-> "TypeError"]
        ELSE [data |-> last, exc |-> "none"]

\* lines 55-57 with a record counted although it has no instant
analyze_entry_counting_all(d, entry) ==
    LET timestamp == parse_timestamp_analyze(TimestampFieldAnalyze(entry))
    IN  IF timestamp = None
        THEN [data |-> [d EXCEPT !.message_count = @ + 1], exc |-> "none"]
        ELSE record_entry(d, entry, timestamp)

\* lines 55-57: the record's instant; a record without one is passed over
analyze_entry(d, entry) ==
    LET timestamp == parse_timestamp_analyze(TimestampFieldAnalyze(entry))
    IN  IF timestamp = None THEN [data |-> d, exc |-> "none"]
        ELSE record_entry(d, entry, timestamp)

\* lines 52-70 without the handler of JSONDecodeError: the outer handler ends the scan
analyze_line_no_handler(d, line) ==
    IF line.k = "blank" THEN [data |-> d, exc |-> "none"]
    ELSE IF line.k = "garbage" THEN [data |-> d, exc |-> "JSONDecodeError"]
    ELSE IF line.v.j # "dict" THEN [data |-> d, exc |-> "AttributeError"]
    ELSE IF Get(line.v, "snapshot", EmptyDict).j # "dict"
    THEN [data |-> d, exc |-> "AttributeError"]
    ELSE analyze_entry(d, line.v)

\* one turn of the loop of analyze_jsonl_file on `line`, from accumulator d:
\* the accumulator after it and the exception that left the loop ("none": it goes on)
analyze_line(d, line) ==
    IF line.k = "blank" THEN [data |-> d, exc |-> "none"]
    ELSE IF line.k = "garbage" THEN [data |-> d, exc |-> "none"]
    ELSE IF line.v.j # "dict" THEN [data |-> d, exc |-> "AttributeError"]
    ELSE IF Get(line.v, "snapshot", EmptyDict).j # "dict"
    THEN [data |-> d, exc |-> "AttributeError"]
    ELSE analyze_entry(d, line.v)

\* the loop of analyze_jsonl_file from accumulator d over the lines left
RECURSIVE AnalyzeFrom(_, _)
AnalyzeFrom(d, lines) ==
    IF lines = <<>> THEN [data |-> d, exc |-> "none"]
    ELSE LET r == analyze_line(d, Head(lines))
         IN  IF r.exc # "none" THEN r ELSE AnalyzeFrom(r.data, Tail(lines))

\* analyze_jsonl_file(filepath): what it returns, and the exception it swallowed
analyze_jsonl_file(lines) == AnalyzeFrom(NewData, lines)

----------------------------------------------------------------------------
(* extract.py: the File Scanner of the Flat Exporter *)

\* the cap on the length of an exported message (10000 in extract.py, scaled down)
Cap == 3

Marker == <<".", ".", ".", "[", "t", "r", "u", "n", "c", "a", "t", "e", "d", "]">>

\* lines 102-114: the Flat Message Entry of a record, <<>> when its text is blank
FlatEntry(timestamp, content, role, project_name) ==
    IF content # <<>> /\ Strip(content) # <<>>
    THEN LET capped == IF Len(content) > Cap
                       THEN SubSeq(content, 1, Cap) \o Marker ELSE content
         IN  <<[datetime |-> isoformat(timestamp),
                date |-> SubSeq(DatePrefix, 1, Len(DatePrefix) - 1),
                time |-> Digit2(timestamp.h) \o <<":", "0", "0">>,
                project |-> project_name,
                role |-> role,
                message |-> Strip(capped)]>>
    ELSE <<>>

\* the value extract_all_conversations hands to parse_timestamp:
\* entry.get('timestamp') or entry.get('snapshot', {}).get('timestamp', '')
TimestampFieldExtract(entry) ==
    LET top == Get(entry, "timestamp", JNull)
    IN  IF Truthy(top) THEN top
        ELSE Get(Get(entry, "snapshot", EmptyDict), "timestamp", JStr(<<>>))

\* evaluating that expression raises AttributeError: the snapshot is looked into
\* and is no dict
TimestampFieldExtractRaises(entry) ==
    /\ ~Truthy(Get(entry, "timestamp", JNull))
    /\ Get(entry, "snapshot", EmptyDict).j # "dict"

\* one turn of the loop of extract_all_conversations on `line`: all_entries after it
\* and the exception that left the file's loop ("none": it goes on)
extract_line(entries, line, project_name) ==
    IF line.k = "blank" THEN [entries |-> entries, exc |-> "none"]
    ELSE IF line.k = "garbage" THEN [entries |-> entries, exc |-> "none"]
    ELSE IF line.v.j # "dict" THEN [entries |-> entries, exc |-> "AttributeError"]
    ELSE IF TimestampFieldExtractRaises(line.v)
    THEN [entries |-> entries, exc |-> "AttributeError"]
    ELSE
    LET entry == line.v
        timestamp == parse_timestamp_extract(TimestampFieldExtract(entry))
        got == extract_message_content(entry)
    IN  IF timestamp = None THEN [entries |-> entries, exc |-> "none"]
        ELSE IF got.exc # "none" THEN [entries |-> entries, exc |-> got.exc]
        ELSE [entries |-> entries
                            \o FlatEntry(timestamp, got.content, got.role, project_name),
              exc |-> "none"]

\* the loop over one file, from all_entries
RECURSIVE ExtractFrom(_, _, _)
ExtractFrom(entries, lines, project_name) ==
    IF lines = <<>> THEN [entries |-> entries, exc |-> "none"]
    ELSE LET r == extract_line(entries, Head(lines), project_name)
         IN  IF r.exc # "none" THEN r ELSE ExtractFrom(r.entries, Tail(lines), project_name)

----------------------------------------------------------------------------
(* analyze.py: scan_all_projects and build_timeline *)

\* datetime.now(), in ticks
Now == 20 * TicksPerDay

\* get_file_age_days: (datetime.now() - file_date).days, floored
get_file_age_days(f) == (Now - f.mtime) \div TicksPerDay

\* os.path.getmtime(filepath) raises OSError (the file vanished, or may not be examined)
StatRaises(f) == f.stat_fails

\* open(filepath) or the iteration over its lines raises (OSError, UnicodeDecodeError)
\* once `n` lines have been delivered
ReadRaises(f, n) == f.read_fails /\ n = f.read_upto

\* line 100 with < for <=
Retained_strict(f) == get_file_age_days(f) < WEEK_DAYS

\* line 100: age_days <= WEEK_DAYS
Retained(f) == get_file_age_days(f) <= WEEK_DAYS

\* project_path.is_dir() and not project_path.name.startswith('.')
IsProject(entry) == entry.is_dir /\ ~StartsWith(entry.name, <<".">>)

\* lines 86-89 with the second glob left out
AllFiles_once(dir) == GlobJsonl(dir)

\* all_files = jsonl_files + agent_files
AllFiles(dir) == GlobJsonl(dir) \o GlobAgentJsonl(dir)

\* the File Summary appended to recent_activity
FileSummary(f, d) ==
    [filename |-> f.name, age_days |-> get_file_age_days(f), modified |-> f.mtime,
     messages |-> d.message_count, first_ts |-> d.first_timestamp,
     last_ts |-> d.last_timestamp]

\* the project appended to projects_data
ProjectSummary(dir, files, total, earliest, latest) ==
    [name |-> get_project_name_analyze(ProjectPath(dir.name)),
     path |-> ProjectPath(dir.name),
     total_messages |-> total,
     files_count |-> Len(files),
     earliest_activity |-> earliest,
     latest_activity |-> latest,
     files |-> SortedDesc(files, [i \in 1..Len(files) |-> [m \in 1..Len(files) |->
                                    files[i].modified < files[m].modified]])]

\* datetime.min
DtMin == Dt(-1, FALSE, 0)

\* x['latest_activity'] or datetime.min
LatestKey(p) == IF p.latest_activity = None THEN DtMin ELSE p.latest_activity

\* sorting datetimes raises TypeError when a naive and an aware one are compared
MixedKeys(keys) == \E i, m \in 1..Len(keys) : ~Comparable(keys[i], keys[m])

DtLessMatrix(keys) ==
    [i \in 1..Len(keys) |-> [m \in 1..Len(keys) |-> DtLess(keys[i], keys[m])]]

\* lines 139-154 with a third entry for every file
EventsOfFile_extra(name, file_info) ==
    <<[timestamp |-> file_info.first_ts, project |-> name,
       filename |-> file_info.filename, type |-> "conversation_start",
       messages |-> file_info.messages],
      [timestamp |-> file_info.last_ts, project |-> name,
       filename |-> file_info.filename, type |-> "last_activity",
       messages |-> file_info.messages],
      [timestamp |-> file_info.last_ts, project |-> name,
       filename |-> file_info.filename, type |-> "last_activity",
       messages |-> file_info.messages]>>

\* lines 139-154: the entries build_timeline appends for one File Summary
EventsOfFile(name, file_info) ==
    (IF file_info.first_ts # None
     THEN <<[timestamp |-> file_info.first_ts, project |-> name,
             filename |-> file_info.filename, type |-> "conversation_start",
             messages |-> file_info.messages]>>
     ELSE <<>>)
    \o
    (IF file_info.last_ts # None
     THEN <<[timestamp |-> file_info.last_ts, project |-> name,
             filename |-> file_info.filename, type |-> "last_activity",
             messages |-> file_info.messages]>>
     ELSE <<>>)

\* the entries build_timeline appends for one project
RECURSIVE FileEvents(_, _)
FileEvents(name, files) ==
    IF files = <<>> THEN <<>>
    ELSE EventsOfFile(name, Head(files)) \o FileEvents(name, Tail(files))

\* the timeline before it is sorted
RECURSIVE Events(_)
Events(projects) ==
    IF projects = <<>> THEN <<>>
    ELSE FileEvents(Head(projects).name, Head(projects).files) \o Events(Tail(projects))

\* the project entry and the file the summary pipeline is at
CurDir == root[pi + 1]
CurFile == AllFiles(CurDir)[fi + 1]

\* lines 81-94: the next entry of the root directory
ScanProject ==
    /\ pc = "scan" /\ pi < Len(root)
    /\ IF IsProject(CurDir)
       THEN /\ recent_activity' = <<>>
            /\ total_messages' = 0
            /\ earliest_ts' = None
            /\ latest_ts' = None
            /\ fi' = 0
            /\ pc' = "files"
            /\ UNCHANGED pi
       ELSE /\ pi' = pi + 1
            /\ UNCHANGED <<pc, fi, recent_activity, total_messages, earliest_ts, latest_ts>>
    /\ UNCHANGED <<root, ln, data, a_exc, projects_data, timeline, s_exc, all_entries, e_exc>>

\* lines 96-101: the next file of the project, dropped when older than WEEK_DAYS;
\* an OSError of get_file_age_days is caught nowhere: the run of analyze.py ends
ScanFile ==
    /\ pc = "files" /\ fi < Len(AllFiles(CurDir))
    /\ IF StatRaises(CurFile)
       THEN /\ s_exc' = "OSError"
            /\ pc' = "extract"
            /\ pi' = 0
            /\ fi' = 0
            /\ UNCHANGED <<ln, data, a_exc>>
       ELSE /\ IF Retained(CurFile)
               THEN /\ data' = NewData
                    /\ a_exc' = "none"
                    /\ ln' = 0
                    /\ pc' = "analyze"
                    /\ UNCHANGED fi
               ELSE /\ fi' = fi + 1
                    /\ UNCHANGED <<pc, ln, data, a_exc>>
            /\ UNCHANGED <<pi, s_exc>>
    /\ UNCHANGED <<root, recent_activity, total_messages, earliest_ts, latest_ts,
                   projects_data, timeline, all_entries, e_exc>>

\* lines 49-72: the file is opened and read line by line; an exception other than
\* JSONDecodeError, the reader's included, ends the scan with what was gathered
AnalyzeLine ==
    /\ pc = "analyze"
    /\ ReadRaises(CurFile, ln) \/ ln < Len(CurFile.lines)
    /\ IF ReadRaises(CurFile, ln)
       THEN a_exc' = "OSError" /\ pc' = "analyzed" /\ UNCHANGED <<ln, data>>
       ELSE LET r == analyze_line(data, CurFile.lines[ln + 1])
            IN  /\ data' = r.data
                /\ IF r.exc = "none"
                   THEN ln' = ln + 1 /\ UNCHANGED <<pc, a_exc>>
                   ELSE a_exc' = r.exc /\ pc' = "analyzed" /\ UNCHANGED ln
    /\ UNCHANGED <<root, pi, fi, recent_activity, total_messages, earliest_ts, latest_ts,
                   projects_data, timeline, s_exc, all_entries, e_exc>>

\* line 74: the file is exhausted, analyze_jsonl_file returns data
AnalyzeReturn ==
    /\ pc = "analyze" /\ ln = Len(CurFile.lines) /\ ~ReadRaises(CurFile, ln)
    /\ pc' = "analyzed"
    /\ UNCHANGED <<root, pi, fi, ln, data, a_exc, recent_activity, total_messages,
                   earliest_ts, latest_ts, projects_data, timeline, s_exc, all_entries,
                   e_exc>>

\* lines 102-116: the file's summary joins the project; comparing a naive with an
\* aware instant raises TypeError, which nothing catches: the run of analyze.py ends
ScanFileDone ==
    /\ pc = "analyzed"
    /\ LET first == data.first_timestamp
           last == data.last_timestamp
           raises ==
               /\ data.message_count > 0
               /\ \/ first # None /\ earliest_ts # None /\ ~Comparable(first, earliest_ts)
                  \/ last # None /\ latest_ts # None /\ ~Comparable(last, latest_ts)
       IN  IF raises
           THEN /\ s_exc' = "TypeError"
                /\ pc' = "extract"
                /\ pi' = 0
                /\ fi' = 0
                /\ UNCHANGED <<recent_activity, total_messages, earliest_ts, latest_ts>>
           ELSE /\ IF data.message_count > 0
                   THEN /\ recent_activity' = Append(recent_activity,
                                                     FileSummary(CurFile, data))
                        /\ total_messages' = total_messages + data.message_count
                        /\ earliest_ts' =
                              IF first # None
                                 /\ (earliest_ts = None \/ DtLess(first, earliest_ts))
                              THEN first ELSE earliest_ts
                        /\ latest_ts' =
                              IF last # None
                                 /\ (latest_ts = None \/ DtLess(latest_ts, last))
                              THEN last ELSE latest_ts
                   ELSE UNCHANGED <<recent_activity, total_messages, earliest_ts,
                                    latest_ts>>
                /\ fi' = fi + 1
                /\ pc' = "files"
                /\ UNCHANGED <<pi, s_exc>>
    /\ UNCHANGED <<root, ln, data, a_exc, projects_data, timeline, all_entries, e_exc>>

\* lines 118-127: the project is kept when a file of it was
ScanProjectEnd ==
    /\ pc = "files" /\ fi = Len(AllFiles(CurDir))
    /\ projects_data' =
          IF recent_activity # <<>>
          THEN Append(projects_data,
                      ProjectSummary(CurDir, recent_activity, total_messages,
                                     earliest_ts, latest_ts))
          ELSE projects_data
    /\ pi' = pi + 1
    /\ pc' = "scan"
    /\ UNCHANGED <<root, fi, ln, data, a_exc, recent_activity, total_messages,
                   earliest_ts, latest_ts, timeline, s_exc, all_entries, e_exc>>

\* lines 129-131: projects sorted by latest activity, newest first
ScanSort ==
    /\ pc = "scan" /\ pi = Len(root)
    /\ LET keys == [i \in 1..Len(projects_data) |-> LatestKey(projects_data[i])]
       IN  IF MixedKeys(keys)
           THEN /\ s_exc' = "TypeError"
                /\ pc' = "extract"
                /\ UNCHANGED projects_data
           ELSE /\ projects_data' = SortedDesc(projects_data, DtLessMatrix(keys))
                /\ pc' = "timeline"
                /\ UNCHANGED s_exc
    /\ pi' = 0
    /\ fi' = 0
    /\ UNCHANGED <<root, ln, data, a_exc, recent_activity, total_messages, earliest_ts,
                   latest_ts, timeline, all_entries, e_exc>>

\* build_timeline(projects_data)
BuildTimeline ==
    /\ pc = "timeline"
    /\ LET events == Events(projects_data)
           keys == [i \in 1..Len(events) |-> events[i].timestamp]
       IN  IF MixedKeys(keys)
           THEN s_exc' = "TypeError" /\ UNCHANGED timeline
           ELSE timeline' = SortedDesc(events, DtLessMatrix(keys)) /\ UNCHANGED s_exc
    /\ pc' = "extract"
    /\ UNCHANGED <<root, pi, fi, ln, data, a_exc, recent_activity, total_messages,
                   earliest_ts, latest_ts, projects_data, all_entries, e_exc>>

----------------------------------------------------------------------------
(* extract.py: extract_all_conversations *)

\* the file the detail pipeline is at
CurXFile == GlobJsonl(CurDir)[fi + 1]

\* lines 80-82: the next entry of the root directory
ExtractProject ==
    /\ pc = "extract" /\ pi < Len(root)
    /\ IF IsProject(CurDir)
       THEN fi' = 0 /\ pc' = "xfiles" /\ UNCHANGED pi
       ELSE pi' = pi + 1 /\ UNCHANGED <<pc, fi>>
    /\ UNCHANGED <<root, ln, data, a_exc, recent_activity, total_messages, earliest_ts,
                   latest_ts, projects_data, timeline, s_exc, all_entries, e_exc>>

\* lines 84-88: the next file of the project is opened, whatever its age
ExtractFile ==
    /\ pc = "xfiles" /\ fi < Len(GlobJsonl(CurDir))
    /\ ln' = 0
    /\ e_exc' = "none"
    /\ pc' = "xlines"
    /\ UNCHANGED <<root, pi, fi, data, a_exc, recent_activity, total_messages,
                   earliest_ts, latest_ts, projects_data, timeline, s_exc, all_entries>>

\* lines 87-118: the file is opened and read line by line; an exception the inner
\* handler does not name, the reader's included, reaches the outer one, which goes on
\* with the next file and keeps the entries already appended
ExtractLine ==
    /\ pc = "xlines"
    /\ ReadRaises(CurXFile, ln) \/ ln < Len(CurXFile.lines)
    /\ IF ReadRaises(CurXFile, ln)
       THEN e_exc' = "OSError" /\ fi' = fi + 1 /\ pc' = "xfiles"
            /\ UNCHANGED <<ln, all_entries>>
       ELSE LET r == extract_line(all_entries, CurXFile.lines[ln + 1],
                                  get_project_name_extract(ProjectPath(CurDir.name)))
            IN  /\ all_entries' = r.entries
                /\ IF r.exc = "none"
                   THEN ln' = ln + 1 /\ UNCHANGED <<pc, fi, e_exc>>
                   ELSE e_exc' = r.exc /\ fi' = fi + 1 /\ pc' = "xfiles" /\ UNCHANGED ln
    /\ UNCHANGED <<root, pi, data, a_exc, recent_activity, total_messages, earliest_ts,
                   latest_ts, projects_data, timeline, s_exc>>

\* the file is exhausted
ExtractEndOfFile ==
    /\ pc = "xlines" /\ ln = Len(CurXFile.lines) /\ ~ReadRaises(CurXFile, ln)
    /\ fi' = fi + 1
    /\ pc' = "xfiles"
    /\ UNCHANGED <<root, pi, ln, data, a_exc, recent_activity, total_messages,
                   earliest_ts, latest_ts, projects_data, timeline, s_exc, all_entries,
                   e_exc>>

\* the project's files are exhausted
ExtractProjectEnd ==
    /\ pc = "xfiles" /\ fi = Len(GlobJsonl(CurDir))
    /\ pi' = pi + 1
    /\ pc' = "extract"
    /\ UNCHANGED <<root, fi, ln, data, a_exc, recent_activity, total_messages,
                   earliest_ts, latest_ts, projects_data, timeline, s_exc, all_entries,
                   e_exc>>

\* lines 120-123: all_entries.sort(key=lambda x: x['datetime'], reverse=True)
ExtractSort ==
    /\ pc = "extract" /\ pi = Len(root)
    /\ all_entries' =
          SortedDesc(all_entries,
                     [i \in 1..Len(all_entries) |-> [m \in 1..Len(all_entries) |->
                         StrLess(all_entries[i].datetime, all_entries[m].datetime)]])
    /\ pc' = "done"
    /\ UNCHANGED <<root, pi, fi, ln, data, a_exc, recent_activity, total_messages,
                   earliest_ts, latest_ts, projects_data, timeline, s_exc, e_exc>>

Next ==
    \/ ScanProject
    \/ ScanFile
    \/ AnalyzeLine
    \/ AnalyzeReturn
    \/ ScanFileDone
    \/ ScanProjectEnd
    \/ ScanSort
    \/ BuildTimeline
    \/ ExtractProject
    \/ ExtractFile
    \/ ExtractLine
    \/ ExtractEndOfFile
    \/ ExtractProjectEnd
    \/ ExtractSort

----------------------------------------------------------------------------
(* Directory trees the runs start from *)

\* the run starts on the tree `tree`
Start(tree) ==
    /\ root = tree
    /\ pc = "scan"
    /\ pi = 0
    /\ fi = 0
    /\ ln = 0
    /\ data = NewData
    /\ a_exc = "none"
    /\ recent_activity = <<>>
    /\ total_messages = 0
    /\ earliest_ts = None
    /\ latest_ts = None
    /\ projects_data = <<>>
    /\ timeline = <<>>
    /\ s_exc = "none"
    /\ all_entries = <<>>
    /\ e_exc = "none"

\* the sequences over S of length at most n
SeqsUpTo(S, n) == UNION {[1..m -> S] : m \in 0..n}

\* timestamp texts: hour h of the model's day with the zone text z
NoZone == <<>>
Zulu == <<"Z">>
Plus2 == <<"+", "0", "2", ":", "0", "0">>
Minus2 == <<"-", "0", "2", ":", "0", "0">>
TsText(h, z) == JStr(DatePrefix \o Digit2(h) \o MinSec \o z)

Hi == JStr(<<"h", "i">>)
TextItem(t) == JDict([type |-> TypeText, text |-> t])
Content(c) == JDict([content |-> c])

DemoDir == UsersLarryDir \o <<"-", "d", "e", "m", "o", "-", "p", "r", "o", "j", "e", "c", "t">>
FileA == <<"a">> \o DotJsonl
FileAgentB == AgentDash \o <<"b">> \o DotJsonl
FileC == <<"c">> \o DotJsonl

Directory(name, files) == [name |-> name, is_dir |-> TRUE, files |-> files]
\* a log file that can be examined and read to its end
LogFile(name, age_ticks, lines) ==
    [name |-> name, mtime |-> Now - age_ticks, lines |-> lines,
     stat_fails |-> FALSE, read_fails |-> FALSE, read_upto |-> Len(lines)]

\* a log file whose modification time cannot be read
Unexaminable(f) == [f EXCEPT !.stat_fails = TRUE]

\* a log file whose reading fails once n of its lines were delivered (n = 0: on open)
Unreadable(f, n) == [f EXCEPT !.read_fails = TRUE, !.read_upto = n]

\* lines of the shapes the logs hold, and of shapes foreign to them
SampleLines ==
    { Blank,
      Garbage,
      \* decodes, but to a list
      Json(JList(<<>>)),
      \* timed records with text: naive (with both timestamps), Z, +02:00, -02:00
      Json(JDict([type |-> TypeUser, timestamp |-> TsText(10, NoZone),
                  snapshot |-> JDict([timestamp |-> TsText(12, NoZone)]),
                  message |-> Content(Hi)])),
      Json(JDict([type |-> TypeAssistant, timestamp |-> TsText(11, Zulu),
                  message |-> Content(JList(<<TextItem(JStr(<<"o", "k">>))>>))])),
      Json(JDict([type |-> TypeMessage, timestamp |-> TsText(12, Plus2),
                  message |-> Content(JList(<<JStr(<<"y", "o">>)>>))])),
      Json(JDict([type |-> TypeUser, timestamp |-> TsText(11, Minus2),
                  message |-> Content(JList(<<TextItem(Hi)>>))])),
      \* records without an instant: empty, malformed (nested only), not a string
      Json(JDict([type |-> TypeUser, timestamp |-> JStr(<<>>), message |-> Content(Hi)])),
      Json(JDict([type |-> TypeUser,
                  snapshot |-> JDict([timestamp |-> JStr(<<"b", "a", "d">>)]),
                  message |-> Content(Hi)])),
      Json(JDict([type |-> TypeUser, timestamp |-> JNum(5), message |-> Content(Hi)])),
      \* timed records of foreign shape: snapshot and message no dicts; a text no string
      Json(JDict([type |-> TypeUser, timestamp |-> TsText(10, NoZone),
                  snapshot |-> JNull, message |-> Hi])),
      Json(JDict([type |-> TypeAssistant, timestamp |-> TsText(10, NoZone),
                  message |-> Content(JList(<<TextItem(JNum(5))>>))])) }

\* one project directory holding one fresh log file of at most MaxLines sample lines
InitLines ==
    \E lines \in SeqsUpTo(SampleLines, MaxLines) :
        Start(<<Directory(DemoDir, <<LogFile(FileA, 0, lines)>>)>>)

SpecLines == InitLines /\ [][Next]_vars

\* message bodies: every text of blanks and letters up to two characters over the cap
Bodies == SeqsUpTo({" ", "a"}, Cap + 2)

\* a timed record of each shape the Record Extractor takes a body from
BodyLines(body) ==
    { Json(JDict([type |-> TypeUser, timestamp |-> TsText(10, NoZone),
                  message |-> Content(JStr(body))])),
      Json(JDict([type |-> TypeAssistant, timestamp |-> TsText(10, NoZone),
                  message |-> Content(JStr(body))])),
      Json(JDict([type |-> TypeAssistant, timestamp |-> TsText(10, NoZone),
                  message |-> Content(JList(<<JStr(body)>>))])) }

\* one project directory holding one fresh log file of one record with a body
InitText ==
    \E body \in Bodies : \E line \in BodyLines(body) :
        Start(<<Directory(DemoDir, <<LogFile(FileA, 0, <<line>>)>>)>>)

SpecText == InitText /\ [][Next]_vars

OtherDir == <<"n", "o", "t", "e", "s">>
HiddenDir == <<".", "g", "i", "t">>

NaiveRecord(h) ==
    Json(JDict([type |-> TypeUser, timestamp |-> TsText(h, NoZone),
                message |-> Content(Hi)]))
AwareRecord(h) ==
    Json(JDict([type |-> TypeUser, timestamp |-> TsText(h, Zulu),
                message |-> Content(Hi)]))

\* file contents: two records, one record with a zone, no record at all
SampleContents == { <<NaiveRecord(10), NaiveRecord(12)>>, <<AwareRecord(11)>>, <<Garbage>> }

\* file ages, in ticks: the last tick of day WEEK_DAYS, the first of the day after
SampleAges == { (WEEK_DAYS + 1) * TicksPerDay - 1, (WEEK_DAYS + 1) * TicksPerDay }

SampleFiles ==
    { LogFile(name, age, lines) :
        name \in {FileA, FileAgentB, FileC}, age \in SampleAges, lines \in SampleContents }

\* a directory listing: files of distinct names
Listings(n) ==
    { fs \in SeqsUpTo(SampleFiles, n) :
        \A i, m \in 1..Len(fs) : i # m => fs[i].name # fs[m].name }

\* what follows the first project in the root directory
SecondEntries ==
    { Directory(OtherDir, <<LogFile(FileA, 0, <<NaiveRecord(11)>>)>>),
      Directory(OtherDir, <<LogFile(FileAgentB, 0, <<AwareRecord(11)>>)>>),
      Directory(HiddenDir, <<LogFile(FileA, 0, <<NaiveRecord(11)>>)>>),
      [name |-> OtherDir, is_dir |-> FALSE, files |-> <<>>] }

\* a root directory of two entries, the first a project of at most MaxFiles files
InitTree ==
    \E fs \in Listings(MaxFiles) : \E second \in SecondEntries :
        Start(<<Directory(DemoDir, fs), second>>)

SpecTree == InitTree /\ [][Next]_vars

\* a fresh file of two records, and the ways examining or reading it can fail: the
\* modification time cannot be read; open fails; reading fails after one line, or
\* after the last one
TwoRecords(name) == LogFile(name, 0, <<NaiveRecord(10), NaiveRecord(12)>>)

FaultsOf(f) ==
    {f, Unexaminable(f)} \cup {Unreadable(f, n) : n \in 0..Len(f.lines)}

FaultyFiles == UNION {FaultsOf(TwoRecords(name)) : name \in {FileA, FileAgentB, FileC}}

\* directory listings of at most n such files, of distinct names
FaultyListings(n) ==
    { fs \in SeqsUpTo(FaultyFiles, n) :
        \A i, m \in 1..Len(fs) : i # m => fs[i].name # fs[m].name }

\* a root directory of two projects: the first of at most MaxFiles files that may
\* fail, the second of one file that does not
InitFaults ==
    \E fs \in FaultyListings(MaxFiles) :
        Start(<<Directory(DemoDir, fs),
                Directory(OtherDir, <<LogFile(FileA, 0, <<NaiveRecord(11)>>)>>)>>)

SpecFaults == InitFaults /\ [][Next]_vars

----------------------------------------------------------------------------
(* Properties *)

\* the display name the detail pipeline gives the project it is at
CurName == get_project_name_extract(ProjectPath(CurDir.name))

\* the detail pipeline has just left the first file of the first project
LeftFirstFile == pc = "xfiles" /\ pi = 0 /\ fi = 1
FirstLines == GlobJsonl(root[1])[1].lines

IsGarbage(l) == l.k = "garbage"

\* the lines of `lines` that json.loads accepts, and the blank ones
WithoutGarbage(lines) == SelectSeq(lines, LAMBDA l : ~IsGarbage(l))

\* C1: a line that json.loads rejects adds no entry and leaves message_count,
\* first_timestamp and last_timestamp as they are, in both pipelines, and the scan
\* goes on: when the file is left, what the scan has accumulated (and the exception
\* that ended it, if any) is what the same file gives with its undecodable lines
\* deleted.
C1_UndecodableLineSkipped ==
    /\ pc = "analyzed" =>
          [data |-> data, exc |-> a_exc]
              = analyze_jsonl_file(WithoutGarbage(CurFile.lines))
    /\ LeftFirstFile =>
          [entries |-> all_entries, exc |-> e_exc]
              = ExtractFrom(<<>>, WithoutGarbage(FirstLines), CurName)

\* C1 witness: both pipelines are through a file whose first line is undecodable
\* and whose every later line was counted and exported.
C1_Witness ==
    /\ pc = "done"
    /\ Len(FirstLines) >= 2
    /\ IsGarbage(FirstLines[1])
    /\ data.message_count = Len(FirstLines) - 1
    /\ Len(all_entries) = Len(FirstLines) - 1

\* a decoded record for which the summary pipeline's parse_timestamp returns None
UntimedAnalyze(l) ==
    /\ l.k = "json" /\ l.v.j = "dict"
    /\ Get(l.v, "snapshot", EmptyDict).j = "dict"
    /\ parse_timestamp_analyze(TimestampFieldAnalyze(l.v)) = None

\* a decoded record for which the detail pipeline's parse_timestamp returns None
UntimedExtract(l) ==
    /\ l.k = "json" /\ l.v.j = "dict"
    /\ ~TimestampFieldExtractRaises(l.v)
    /\ parse_timestamp_extract(TimestampFieldExtract(l.v)) = None

WithoutUntimedAnalyze(lines) == SelectSeq(lines, LAMBDA l : ~UntimedAnalyze(l))
WithoutUntimedExtract(lines) == SelectSeq(lines, LAMBDA l : ~UntimedExtract(l))

\* parse_timestamp gives None or a datetime for v, whatever v is
ParsesOrNone(v) ==
    /\ parse_timestamp_analyze(v) = None \/ parse_timestamp_analyze(v).k = "dt"
    /\ parse_timestamp_extract(v) = None \/ parse_timestamp_extract(v).k = "dt"

\* C2: a decoded record whose timestamp parse_timestamp turns into None (missing,
\* empty, malformed or not a string) is not counted and moves neither bound in the
\* summary pipeline and gives no Flat Message Entry in the detail pipeline: each
\* pipeline's result is the one the file gives with those records deleted; and
\* parse_timestamp returns (None or an instant) for every timestamp value of the file.
C2_UntimedRecordDropped ==
    /\ pc = "analyzed" =>
          [data |-> data, exc |-> a_exc]
              = analyze_jsonl_file(WithoutUntimedAnalyze(CurFile.lines))
    /\ LeftFirstFile =>
          [entries |-> all_entries, exc |-> e_exc]
              = ExtractFrom(<<>>, WithoutUntimedExtract(FirstLines), CurName)
    /\ pc = "done" => \A i \in 1..Len(FirstLines) :
          (FirstLines[i].k = "json" /\ FirstLines[i].v.j = "dict") =>
              /\ ParsesOrNone(Get(FirstLines[i].v, "timestamp", JNull))
              /\ LET snap == Get(FirstLines[i].v, "snapshot", EmptyDict)
                 IN  snap.j = "dict" => ParsesOrNone(Get(snap, "timestamp", JNull))

\* C2 witness: both pipelines are through a file that holds a record neither could
\* time, whose other lines were all counted and exported.
C2_Witness ==
    /\ pc = "done"
    /\ Len(FirstLines) >= 2
    /\ \E i \in 1..Len(FirstLines) :
          UntimedAnalyze(FirstLines[i]) /\ UntimedExtract(FirstLines[i])
    /\ data.message_count = Len(FirstLines) - 1
    /\ Len(all_entries) = Len(FirstLines) - 1

\* a record the round trip speaks of: a user, assistant or message record with a
\* timestamp both pipelines parse and text that is not blank
WellFormed(l) ==
    /\ l.k = "json" /\ l.v.j = "dict"
    /\ Get(l.v, "type", JNull) \in {TypeUser, TypeAssistant, TypeMessage}
    /\ Get(l.v, "snapshot", EmptyDict).j = "dict"
    /\ parse_timestamp_analyze(TimestampFieldAnalyze(l.v)) # None
    /\ parse_timestamp_extract(TimestampFieldExtract(l.v)) # None
    /\ extract_message_content(l.v).exc = "none"
    /\ Strip(extract_message_content(l.v).content) # <<>>

\* C3: a file of K well-formed records, their timestamps with or without a zone in
\* any mix, gives message_count = K in the summary pipeline and K Flat Message
\* Entries in the detail pipeline.
C3_RoundTripCount ==
    /\ (pc = "analyzed" /\ \A i \in 1..Len(CurFile.lines) : WellFormed(CurFile.lines[i]))
          => data.message_count = Len(CurFile.lines)
    /\ (LeftFirstFile /\ \A i \in 1..Len(FirstLines) : WellFormed(FirstLines[i]))
          => Len(all_entries) = Len(FirstLines)

\* build_timeline has returned
TimelineReturned == s_exc = "none" /\ pc \in {"extract", "xfiles", "xlines", "done"}

\* the instant of a Flat Message Entry
EntryDt(e) == fromisoformat(e.datetime)

\* C4: the timeline build_timeline returns and the list extract_all_conversations
\* returns are non-increasing in time from each entry to the next (for the Flat
\* Exporter: between entries that both carry an offset or both carry none).
C4_SortedByInstant ==
    /\ TimelineReturned =>
          \A i \in 1..(Len(timeline) - 1) :
              ~DtLess(timeline[i].timestamp, timeline[i + 1].timestamp)
    /\ pc = "done" =>
          \A i \in 1..(Len(all_entries) - 1) :
              Comparable(EntryDt(all_entries[i]), EntryDt(all_entries[i + 1])) =>
                  Instant(EntryDt(all_entries[i])) >= Instant(EntryDt(all_entries[i + 1]))

UsersLarryPrefix == UsersLarryDir \o <<"-">>

\* the label the spec gives a directory name '-Users-larry-<segments>'
Label(dirname) ==
    Title(Replace(SubSeq(dirname, Len(UsersLarryPrefix) + 1, Len(dirname)),
                  <<"-">>, <<" ">>))

\* C7: a project directory named '-Users-larry-<segments>' is shown under the
\* title-cased, space-separated segments ('-Users-larry-demo-project': 'Demo
\* Project'), in the projects of the summary pipeline and the entries of the detail
\* pipeline.
C7_DisplayName ==
    /\ \A i \in 1..Len(projects_data) :
          StartsWith(PathName(projects_data[i].path), UsersLarryPrefix) =>
              projects_data[i].name = Label(PathName(projects_data[i].path))
    /\ (Len(root) = 1 /\ StartsWith(root[1].name, UsersLarryPrefix)) =>
          \A i \in 1..Len(all_entries) : all_entries[i].project = Label(root[1].name)

\* a record that carries a nested snapshot timestamp and a top-level timestamp
HasBoth(l) ==
    /\ l.k = "json" /\ l.v.j = "dict"
    /\ Get(l.v, "snapshot", EmptyDict).j = "dict"
    /\ Truthy(Get(Get(l.v, "snapshot", EmptyDict), "timestamp", JNull))
    /\ Truthy(Get(l.v, "timestamp", JNull))

Nested(l) == Get(Get(l.v, "snapshot", EmptyDict), "timestamp", JNull)

\* C9: of a record that carries both timestamps, each pipeline uses the nested
\* snapshot one: the one record of a file, when counted or exported, is counted or
\* exported at the instant of its nested timestamp.
C9_NestedTimestampPreferred ==
    /\ (pc = "analyzed" /\ Len(CurFile.lines) = 1 /\ HasBoth(CurFile.lines[1])
            /\ data.message_count = 1)
          => data.first_timestamp = parse_timestamp_analyze(Nested(CurFile.lines[1]))
    /\ (pc = "done" /\ Len(root) = 1 /\ Len(FirstLines) = 1 /\ HasBoth(FirstLines[1])
            /\ Len(all_entries) = 1)
          => /\ parse_timestamp_extract(Nested(FirstLines[1])) # None
             /\ all_entries[1].datetime
                    = isoformat(parse_timestamp_extract(Nested(FirstLines[1])))

\* a content element that is neither a string nor a text item holding a string
ForeignItem(item) ==
    \/ item.j \notin {"dict", "str"}
    \/ item.j = "dict" /\ Get(item, "text", JStr(<<>>)).j # "str"

\* a line that decodes, but not to a record of the shape the logs hold
Foreign(l) ==
    /\ l.k = "json"
    /\ \/ l.v.j # "dict"
       \/ Get(l.v, "snapshot", EmptyDict).j # "dict"
       \/ Get(l.v, "message", EmptyDict).j # "dict"
       \/ LET cont == Get(Get(l.v, "message", EmptyDict), "content", JList(<<>>))
          IN  cont.j = "list" /\ \E i \in 1..Len(cont.items) : ForeignItem(cont.items[i])

WithoutForeign(lines) == SelectSeq(lines, LAMBDA l : ~Foreign(l))

\* C10: a foreign-shaped line costs at most its own record: each pipeline counts or
\* exports at least what it does for the same file with the foreign lines deleted.
C10_ForeignLineConfined ==
    /\ pc = "analyzed" =>
          data.message_count
              >= analyze_jsonl_file(WithoutForeign(CurFile.lines)).data.message_count
    /\ LeftFirstFile =>
          Len(all_entries)
              >= Len(ExtractFrom(<<>>, WithoutForeign(FirstLines), CurName).entries)

\* scan_all_projects has returned projects_data
ScanReturned == pc = "timeline"

\* the message count the File Scanner gives a file
CountOf(f) == analyze_jsonl_file(f.lines).data.message_count

\* the files of a project directory that the age cutoff and the count let in
Kept(dir) ==
    SelectSeq(AllFiles(dir), LAMBDA f : get_file_age_days(f) <= WEEK_DAYS /\ CountOf(f) > 0)

RECURSIVE SumCounts(_)
SumCounts(files) == IF files = <<>> THEN 0 ELSE CountOf(Head(files)) + SumCounts(Tail(files))

\* the projects of projects_data that come from the directory dir
ProjectsOf(dir) ==
    SelectSeq(projects_data, LAMBDA p : p.path = ProjectPath(dir.name))

\* t is the least first, or the greatest last, instant of the kept files
IsEarliest(t, kept) ==
    /\ \E i \in 1..Len(kept) : analyze_jsonl_file(kept[i].lines).data.first_timestamp = t
    /\ \A i \in 1..Len(kept) :
          ~DtLess(analyze_jsonl_file(kept[i].lines).data.first_timestamp, t)
IsLatest(t, kept) ==
    /\ \E i \in 1..Len(kept) : analyze_jsonl_file(kept[i].lines).data.last_timestamp = t
    /\ \A i \in 1..Len(kept) :
          ~DtLess(t, analyze_jsonl_file(kept[i].lines).data.last_timestamp)

\* C5: when scan_all_projects returns, a file aged exactly WEEK_DAYS whole days with
\* a positive message count has its File Summary in its project's list, and a file
\* aged WEEK_DAYS + 1 days is in no list and adds to no total and no bound: the
\* project's total and bounds are those of the files aged at most WEEK_DAYS.
C5_AgeCutoffBoundary ==
    ScanReturned =>
        \A d \in 1..Len(root) : IsProject(root[d]) =>
            LET dir == root[d]
                files == AllFiles(dir)
                kept == Kept(dir)
                ps == ProjectsOf(dir)
            IN  /\ Len(ps) = IF kept = <<>> THEN 0 ELSE 1
                /\ \A i \in 1..Len(files) :
                      (get_file_age_days(files[i]) = WEEK_DAYS /\ CountOf(files[i]) > 0) =>
                          \E m \in 1..Len(ps[1].files) :
                              /\ ps[1].files[m].filename = files[i].name
                              /\ ps[1].files[m].age_days = WEEK_DAYS
                              /\ ps[1].files[m].messages = CountOf(files[i])
                /\ \A i \in 1..Len(files) :
                      get_file_age_days(files[i]) = WEEK_DAYS + 1 =>
                          \A k \in 1..Len(ps) : \A m \in 1..Len(ps[k].files) :
                              ps[k].files[m].filename # files[i].name
                /\ kept # <<>> =>
                      /\ ps[1].total_messages = SumCounts(kept)
                      /\ IsEarliest(ps[1].earliest_activity, kept)
                      /\ IsLatest(ps[1].latest_activity, kept)

\* C5 witness: scan_all_projects has returned a project that lists a file aged
\* exactly WEEK_DAYS days, from a directory that also holds a file with records aged
\* WEEK_DAYS + 1 days.
C5_Witness ==
    /\ ScanReturned
    /\ \E d \in 1..Len(root) :
          /\ IsProject(root[d])
          /\ \E i, m \in 1..Len(root[d].files) :
                /\ get_file_age_days(root[d].files[i]) = WEEK_DAYS
                /\ CountOf(root[d].files[i]) > 0
                /\ get_file_age_days(root[d].files[m]) = WEEK_DAYS + 1
                /\ CountOf(root[d].files[m]) > 0
          /\ Len(ProjectsOf(root[d])) = 1
          /\ ProjectsOf(root[d])[1].total_messages > 0

\* C6: a body longer than Cap is exported as its first Cap characters followed by
\* the truncation marker, Cap + Len(Marker) characters in all, whatever blanks the
\* body starts or ends with; a body of at most Cap characters is exported whole.
C6_Truncation ==
    (pc = "done" /\ Len(root) = 1 /\ Len(FirstLines) = 1 /\ Len(all_entries) = 1
        /\ FirstLines[1].k = "json" /\ FirstLines[1].v.j = "dict"
        /\ extract_message_content(FirstLines[1].v).exc = "none")
    => LET body == extract_message_content(FirstLines[1].v).content
       IN  IF Len(body) > Cap
           THEN /\ all_entries[1].message = SubSeq(body, 1, Cap) \o Marker
                /\ Len(all_entries[1].message) = Cap + Len(Marker)
           ELSE all_entries[1].message = Strip(body)

\* the entries of the timeline of kind `type` that carry project `name`
EntriesOf(name, type) ==
    SelectSeq(timeline, LAMBDA e : e.project = name /\ e.type = type)

RECURSIVE FilesTotal(_)
FilesTotal(projects) ==
    IF projects = <<>> THEN 0 ELSE Len(Head(projects).files) + FilesTotal(Tail(projects))

\* C8: the timeline build_timeline returns holds, for each project of F File
\* Summaries, at most F 'conversation_start' and at most F 'last_activity' entries
\* (one of each per File Summary at most, however many messages a file has), so at
\* most 2 * F entries of that project, and at most twice the number of File
\* Summaries in all.
C8_TimelineSizeBound ==
    TimelineReturned =>
        /\ \A i \in 1..Len(projects_data) :
              LET p == projects_data[i]
                  starts == EntriesOf(p.name, "conversation_start")
                  lasts == EntriesOf(p.name, "last_activity")
              IN  /\ Len(starts) <= Len(p.files)
                  /\ Len(lasts) <= Len(p.files)
                  /\ \A m \in 1..Len(p.files) :
                        LET same(x) == x.filename = p.files[m].filename
                        IN  /\ Len(SelectSeq(starts, same))
                                <= Len(SelectSeq(p.files, same))
                            /\ Len(SelectSeq(lasts, same))
                                <= Len(SelectSeq(p.files, same))
        /\ Len(timeline) <= 2 * FilesTotal(projects_data)
        /\ \A i \in 1..Len(timeline) :
              \E m \in 1..Len(projects_data) : projects_data[m].name = timeline[i].project

\* C8 witness: the timeline is returned for two projects, one with two File
\* Summaries of two messages each, and holds two entries for every File Summary.
C8_Witness ==
    /\ TimelineReturned
    /\ Len(projects_data) = 2
    /\ \E i \in 1..Len(projects_data) :
          /\ Len(projects_data[i].files) >= 2
          /\ \A m \in 1..Len(projects_data[i].files) : projects_data[i].files[m].messages >= 2
    /\ Len(timeline) = 2 * FilesTotal(projects_data)

----------------------------------------------------------------------------
(* Filesystem errors and overlapping globs *)

\* examining or reading the file fails
Faulty(f) == f.stat_fails \/ f.read_fails

\* the files of a project directory that the summary pipeline lists when the
\* files that fail are left out
KeptSound(dir) == SelectSeq(Kept(dir), LAMBDA f : ~Faulty(f))

\* the entries the detail pipeline exports for the files that do not fail
RECURSIVE SoundEntries(_, _)
SoundEntries(files, name) ==
    IF files = <<>> THEN <<>>
    ELSE (IF Faulty(Head(files)) THEN <<>>
          ELSE ExtractFrom(<<>>, Head(files).lines, name).entries)
         \o SoundEntries(Tail(files), name)

RECURSIVE AllSoundEntries(_)
AllSoundEntries(tree) ==
    IF tree = <<>> THEN <<>>
    ELSE (IF IsProject(Head(tree))
          THEN SoundEntries(GlobJsonl(Head(tree)),
                            get_project_name_extract(ProjectPath(Head(tree).name)))
          ELSE <<>>)
         \o AllSoundEntries(Tail(tree))

\* C11: a log file whose modification time or content cannot be read is skipped
\* entirely and nothing else is lost: the run of the summary pipeline is not ended
\* by the error, the projects it returns are those of the files that do not fail
\* (File Summaries, counts, totals and bounds), and the detail pipeline has, before
\* it sorts, exactly the entries of the files that do not fail.
C11_FileErrorsSkipFile ==
    /\ s_exc # "OSError"
    /\ ScanReturned =>
          \A d \in 1..Len(root) : IsProject(root[d]) =>
              LET kept == KeptSound(root[d])
                  ps == ProjectsOf(root[d])
              IN  /\ Len(ps) = IF kept = <<>> THEN 0 ELSE 1
                  /\ kept # <<>> =>
                        /\ ps[1].files_count = Len(kept)
                        /\ ps[1].total_messages = SumCounts(kept)
                        /\ \A m \in 1..Len(ps[1].files) :
                              \E i \in 1..Len(kept) :
                                  /\ ps[1].files[m].filename = kept[i].name
                                  /\ ps[1].files[m].messages = CountOf(kept[i])
                        /\ IsEarliest(ps[1].earliest_activity, kept)
                        /\ IsLatest(ps[1].latest_activity, kept)
    /\ (pc = "extract" /\ pi = Len(root)) => all_entries = AllSoundEntries(root)

\* the File Summaries of project p that carry the name of file f
SummariesOf(p, f) == SelectSeq(p.files, LAMBDA x : x.filename = f.name)

RECURSIVE SumMessages(_)
SumMessages(summaries) ==
    IF summaries = <<>> THEN 0
    ELSE Head(summaries).messages + SumMessages(Tail(summaries))

\* the directory a project of projects_data was scanned from
DirOf(p) == CHOOSE dir \in {root[d] : d \in 1..Len(root)} : ProjectPath(dir.name) = p.path

\* C12: when scan_all_projects returns, in every project a retained file with a
\* positive message count has two File Summaries when its name matches
\* 'agent-*.jsonl' and one otherwise, each with the file's message count; a file
\* that is not retained or has no message has none; total_messages is the sum of
\* 'messages' over the project's file list and files_count is the list's length.
C12_OverlappingGlobs ==
    ScanReturned =>
        \A k \in 1..Len(projects_data) :
            LET p == projects_data[k]
                listed == DirOf(p).files
            IN  /\ \A i \in 1..Len(listed) :
                      LET f == listed[i]
                          mine == SummariesOf(p, f)
                      IN  /\ Len(mine) =
                                IF Retained(f) /\ CountOf(f) > 0
                                THEN (IF MatchAgentJsonl(f.name) THEN 2 ELSE 1)
                                ELSE 0
                          /\ \A m \in 1..Len(mine) : mine[m].messages = CountOf(f)
                /\ p.total_messages = SumMessages(p.files)
                /\ p.files_count = Len(p.files)

\* C12 witness: scan_all_projects has returned a project whose directory holds a
\* retained 'agent-' file with records and a retained file of another name with
\* records; the first has two File Summaries, the second one, and the total counts
\* the first file's messages twice.
C12_Witness ==
    /\ ScanReturned
    /\ \E k \in 1..Len(projects_data) :
          LET p == projects_data[k]
              listed == DirOf(p).files
          IN  \E i, m \in 1..Len(listed) :
                  /\ MatchAgentJsonl(listed[i].name)
                  /\ ~MatchAgentJsonl(listed[m].name)
                  /\ Retained(listed[i]) /\ CountOf(listed[i]) > 0
                  /\ Retained(listed[m]) /\ CountOf(listed[m]) > 0
                  /\ Len(SummariesOf(p, listed[i])) = 2
                  /\ Len(SummariesOf(p, listed[m])) = 1
                  /\ p.total_messages = 2 * CountOf(listed[i]) + CountOf(listed[m])

====
